---- MODULE Spec2Model ----
(***************************************************************************)
(* Canister car track-time calculator: the drag-area validator, the        *)
(* solver front end (solve_canister_car) and the two-pass integration      *)
(* engine (integrate_motion).                                               *)
(*                                                                          *)
(* Numbers.  A Python float is modelled as a pair <<n, d>>:                 *)
(*   d > 0   the exact rational n/d in lowest terms,                        *)
(*   <<0,0>> NaN,  <<1,0>> +infinity,  <<-1,0>> -infinity.                  *)
(* Arithmetic on finite values is exact (no rounding error); the IEEE      *)
(* rules are kept for the non-finite values and for comparisons with NaN.   *)
(* An optional value (Python None or a value) is a sequence of length 0 or  *)
(* 1: None == <<>>, Some(x) == <<x>>.                                       *)
(***************************************************************************)
EXTENDS Integers, Sequences, FiniteSets, TLC

(***************************************************************************)
(* Bounds of the model.                                                     *)
(***************************************************************************)
\* largest time grid (number of samples) the integration runs explore
MaxN == 4

\* longest array given to canister_force and mass on their own
MaxArgs == 2

\* largest num_points given to get_time_history
MaxPoints == 3

\* largest no-drag speed, in m/s, whose run is followed past the drag step (the
\* square of a speed near the 1e6 sentinel leaves TLC's integer range)
MaxSpeed == 1000

(***************************************************************************)
(* Float arithmetic.                                                        *)
(***************************************************************************)
Abs(x) == IF x < 0 THEN -x ELSE x

Sgn(x) == IF x < 0 THEN -1 ELSE IF x > 0 THEN 1 ELSE 0

RECURSIVE GCD(_, _)
GCD(a, b) == IF b = 0 THEN a ELSE GCD(b, a % b)

\* the rational n/d (d # 0) in lowest terms with a positive denominator
Rat(n, d) ==
    LET g == GCD(Abs(n), Abs(d))
    IN  IF d < 0 THEN <<(-n) \div g, (-d) \div g>> ELSE <<n \div g, d \div g>>

NaN == <<0, 0>>
PosInf == <<1, 0>>
NegInf == <<-1, 0>>
Zero == <<0, 1>>
Int2F(k) == <<k, 1>>

IsNaN(x) == x = NaN
IsInf(x) == x[2] = 0 /\ x[1] # 0
IsFinite(x) == x[2] > 0

\* x + y
FAdd(x, y) ==
    IF IsNaN(x) \/ IsNaN(y) THEN NaN
    ELSE IF IsInf(x) /\ IsInf(y) THEN (IF x = y THEN x ELSE NaN)
    ELSE IF IsInf(x) THEN x
    ELSE IF IsInf(y) THEN y
    ELSE LET g == GCD(x[2], y[2])
             l == (x[2] \div g) * y[2]
         IN  Rat(x[1] * (l \div x[2]) + y[1] * (l \div y[2]), l)

FNeg(x) == <<-x[1], x[2]>>

\* x - y
FSub(x, y) == FAdd(x, FNeg(y))

\* x * y
FMul(x, y) ==
    IF IsNaN(x) \/ IsNaN(y) THEN NaN
    ELSE IF IsInf(x) \/ IsInf(y)
         THEN (IF x[1] = 0 \/ y[1] = 0 THEN NaN
               ELSE <<Sgn(x[1]) * Sgn(y[1]), 0>>)
    ELSE LET g1 == GCD(Abs(x[1]), y[2])
             g2 == GCD(Abs(y[1]), x[2])
         IN  <<(x[1] \div g1) * (y[1] \div g2), (x[2] \div g2) * (y[2] \div g1)>>

\* x / y with numpy's rules for a zero or non-finite divisor
FDiv(x, y) ==
    IF IsNaN(x) \/ IsNaN(y) THEN NaN
    ELSE IF IsInf(y) THEN (IF IsInf(x) THEN NaN ELSE Zero)
    ELSE IF y[1] = 0
         THEN (IF x[1] = 0 THEN NaN ELSE <<Sgn(x[1]), 0>>)
    ELSE FMul(x, <<Sgn(y[1]) * y[2], Abs(y[1])>>)

\* x < y (False whenever an operand is NaN)
FLt(x, y) ==
    IF IsNaN(x) \/ IsNaN(y) THEN FALSE
    ELSE IF x = y THEN FALSE
    ELSE IF IsInf(x) THEN x = NegInf
    ELSE IF IsInf(y) THEN y = PosInf
    ELSE FSub(x, y)[1] < 0

FLe(x, y) == ~IsNaN(x) /\ ~IsNaN(y) /\ (x = y \/ FLt(x, y))
FGt(x, y) == FLt(y, x)
FGe(x, y) == FLe(y, x)

\* int(x) of a finite x: truncation toward zero
FTrunc(x) == Sgn(x[1]) * (Abs(x[1]) \div x[2])

\* ceil(x) of a finite x
FCeil(x) == -((-x[1]) \div x[2])

None == <<>>
Some(x) == <<x>>

(***************************************************************************)
(* constants.py                                                             *)
(***************************************************************************)
AIR_DENSITY == Rat(120473, 100000)
X_RANGE_1_END == Rat(1306115, 10000000)
X_RANGE_2_END == Rat(849993, 1000000)
X_RANGE_3_END == Rat(1280275, 1000000)
MASS_BASE == Rat(214, 10000)
MASS_BASE_M == Rat(48, 1000)
\* MASS_COEFF_NUM = 0.008 * 40000**2 and MASS_COEFF_DEN = 51211**2, kept as
\* their factors: 51211**2 is beyond the integers TLC computes with
MASS_COEFF_SCALE == Rat(8, 1000)
MASS_COEFF_NUM_ROOT == Int2F(40000)
MASS_COEFF_DEN_ROOT == Int2F(51211)
MASS_CENTER == Rat(1280275, 1000000)
MASS_MAX_X == Rat(1280275, 1000000)
TARGET_DISPLACEMENT == Int2F(20)
MIN_CDA == Rat(1, 10000)
MAX_CDA == Int2F(1)

(***************************************************************************)
(* Messages.  A message is its format text with the value formatted into    *)
(* its placeholder (None when the text has none); the rendering of the      *)
(* value into decimal digits is not modelled.                               *)
(***************************************************************************)
Msg(text, arg) == [text |-> text, arg |-> arg]

(***************************************************************************)
(* drag_model.py                                                            *)
(***************************************************************************)
\* A drag-area argument as a caller can pass it: None, a float (val), a
\* string (text) or a list.
CdaArg(kind, val, text) == [kind |-> kind, val |-> val, text |-> text]
CdaNone == CdaArg("none", Zero, "")
CdaFloat(v) == CdaArg("float", v, "")
CdaStr(txt) == CdaArg("str", Zero, txt)
CdaList == CdaArg("list", Zero, "")

\* float(cda): <<TRUE, value>> or <<FALSE, exception>>
PyFloat(c) ==
    CASE c.kind = "float" -> <<TRUE, c.val, "">>
      [] c.kind = "str" ->
            (CASE c.text = "0.5" -> <<TRUE, Rat(1, 2), "">>
               [] c.text = "2" -> <<TRUE, Int2F(2), "">>
               [] c.text = "nan" -> <<TRUE, NaN, "">>
               [] c.text = "5.0" -> <<TRUE, Int2F(5), "">>
               [] c.text = "10.0" -> <<TRUE, Int2F(10), "">>
               [] c.text = "0.000001" -> <<TRUE, Rat(1, 1000000), "">>
               [] c.text = "-1" -> <<TRUE, Int2F(-1), "">>
               [] OTHER -> <<FALSE, Zero, "ValueError">>)
      [] OTHER -> <<FALSE, Zero, "TypeError">>

\* validate_cda without the upper limit
validate_cda_NoMax(c) ==
    IF c.kind = "none" THEN <<FALSE, Msg("CdA value cannot be None", None)>>
    ELSE LET conv == PyFloat(c)
             cda_float == conv[2]
         IN  IF ~conv[1] THEN <<FALSE, Msg("CdA must be a number", None)>>
             ELSE IF FLe(cda_float, Zero)
                  THEN <<FALSE, Msg("CdA must be positive", None)>>
             ELSE IF FLt(cda_float, MIN_CDA)
                  THEN <<FALSE, Msg("CdA value too small (minimum ${MIN_CDA})", None)>>
             ELSE <<TRUE, Msg("", None)>>

\* validate_cda with the limits themselves excluded (<= and >= for < and >)
validate_cda_Open(c) ==
    IF c.kind = "none" THEN <<FALSE, Msg("CdA value cannot be None", None)>>
    ELSE LET conv == PyFloat(c)
             cda_float == conv[2]
         IN  IF ~conv[1] THEN <<FALSE, Msg("CdA must be a number", None)>>
             ELSE IF FLe(cda_float, Zero)
                  THEN <<FALSE, Msg("CdA must be positive", None)>>
             ELSE IF FLe(cda_float, MIN_CDA)
                  THEN <<FALSE, Msg("CdA value too small (minimum ${MIN_CDA})", None)>>
             ELSE IF FGe(cda_float, MAX_CDA)
                  THEN <<FALSE, Msg("CdA value too large (maximum ${MAX_CDA})", None)>>
             ELSE <<TRUE, Msg("", None)>>

\* validate_cda(cda): <<is_valid, error_message>>
validate_cda(c) ==
    IF c.kind = "none" THEN <<FALSE, Msg("CdA value cannot be None", None)>>
    ELSE LET conv == PyFloat(c)
             cda_float == conv[2]
         IN  IF ~conv[1] THEN <<FALSE, Msg("CdA must be a number", None)>>
             ELSE IF FLe(cda_float, Zero)
                  THEN <<FALSE, Msg("CdA must be positive", None)>>
             ELSE IF FLt(cda_float, MIN_CDA)
                  THEN <<FALSE, Msg("CdA value too small (minimum ${MIN_CDA})", None)>>
             ELSE IF FGt(cda_float, MAX_CDA)
                  THEN <<FALSE, Msg("CdA value too large (maximum ${MAX_CDA})", None)>>
             ELSE <<TRUE, Msg("", None)>>

\* drag_force without the clamp of negative velocities
drag_force_NoClamp(velocity, c) ==
    FMul(FMul(FMul(Rat(1, 2), AIR_DENSITY), FMul(velocity, velocity)), c)

\* drag_force(velocity, cda) for one sample (the array path applies the same
\* expression to every element)
drag_force(velocity, c) ==
    LET vel == IF FLt(velocity, Zero) THEN Zero ELSE velocity
    IN  FMul(FMul(FMul(Rat(1, 2), AIR_DENSITY), FMul(vel, vel)), c)

(***************************************************************************)
(* canister_force.py.  f1 and f2 are transcendental, so a thrust value is   *)
(* the term "regime function applied to x"; the result 0.0 is its own term. *)
(***************************************************************************)
Thrust(fn, x) == [fn |-> fn, at |-> x]
NoThrust == Thrust("0.0", Zero)
f1(x) == Thrust("f1", x)
f2(x) == Thrust("f2", x)
f3(x) == Thrust("f3", x)

\* canister_force(x) for a scalar x (the code writes the last boundary as the
\* literal 1.280275, the value of X_RANGE_3_END)
canister_force_scalar(x) ==
    IF FLt(x, Zero) THEN NoThrust
    ELSE IF FLt(x, X_RANGE_1_END) THEN f1(x)
    ELSE IF FLt(x, X_RANGE_2_END) THEN f2(x)
    ELSE IF FLe(x, X_RANGE_3_END) THEN f3(x)
    ELSE NoThrust

\* canister_force with the third regime open at the burn-out time
canister_force_array_OpenLast(x) ==
    [i \in 1..Len(x) |->
        IF FGe(x[i], X_RANGE_2_END) /\ FLt(x[i], X_RANGE_3_END) THEN f3(x[i])
        ELSE IF FGe(x[i], X_RANGE_1_END) /\ FLt(x[i], X_RANGE_2_END) THEN f2(x[i])
        ELSE IF FGe(x[i], Zero) /\ FLt(x[i], X_RANGE_1_END) THEN f1(x[i])
        ELSE NoThrust]

\* canister_force(x) for an array x: result starts as zeros and the masked
\* assignments of mask1, mask2, mask3 follow in that order (a later one wins)
canister_force_array(x) ==
    [i \in 1..Len(x) |->
        IF FGe(x[i], X_RANGE_2_END) /\ FLe(x[i], X_RANGE_3_END) THEN f3(x[i])
        ELSE IF FGe(x[i], X_RANGE_1_END) /\ FLt(x[i], X_RANGE_2_END) THEN f2(x[i])
        ELSE IF FGe(x[i], Zero) /\ FLt(x[i], X_RANGE_1_END) THEN f1(x[i])
        ELSE NoThrust]

(***************************************************************************)
(* mass_model.py                                                            *)
(***************************************************************************)
\* MASS_BASE + coefficient * (x - MASS_CENTER) ** 2 with
\* coefficient = MASS_COEFF_NUM / MASS_COEFF_DEN = 0.008 * (40000 / 51211) ** 2,
\* evaluated as MASS_BASE + 0.008 * (40000 * (x - MASS_CENTER) / 51211) ** 2
MassActive(x) ==
    LET u == FDiv(FMul(MASS_COEFF_NUM_ROOT, FSub(x, MASS_CENTER)), MASS_COEFF_DEN_ROOT)
    IN  FAdd(MASS_BASE, FMul(MASS_COEFF_SCALE, FMul(u, u)))

\* mass that stays at its initial value while the canister burns
mass_scalar_Constant(x) ==
    IF FLt(x, Zero) THEN MASS_BASE
    ELSE IF FLe(x, MASS_MAX_X) THEN MassActive(Zero)
    ELSE MASS_BASE

\* mass(x) for a scalar x
mass_scalar(x) ==
    IF FLt(x, Zero) THEN MASS_BASE
    ELSE IF FLe(x, MASS_MAX_X) THEN MassActive(x)
    ELSE MASS_BASE

\* mass(x) for an array x: result starts as zeros and the masked assignments
\* of mask_active, mask_empty, mask_negative follow in that order
mass_array(x) ==
    [i \in 1..Len(x) |->
        IF FLt(x[i], Zero) THEN MASS_BASE
        ELSE IF FGt(x[i], MASS_MAX_X) THEN MASS_BASE
        ELSE IF FGe(x[i], Zero) /\ FLe(x[i], MASS_MAX_X) THEN MassActive(x[i])
        ELSE Zero]

\* coefficient * (x - MASS_CENTER) with
\* coefficient = 2 * MASS_COEFF_NUM / MASS_COEFF_DEN, evaluated as
\* 2 * 0.008 * (40000 / 51211) * ((40000 / 51211) * (x - MASS_CENTER))
MassDerivativeActive(x) ==
    LET r == FDiv(MASS_COEFF_NUM_ROOT, MASS_COEFF_DEN_ROOT)
    IN  FMul(FMul(Int2F(2), MASS_COEFF_SCALE), FMul(r, FMul(r, FSub(x, MASS_CENTER))))

\* mass_derivative(x) for a scalar x
mass_derivative_scalar(x) ==
    IF FLt(x, Zero) \/ FGt(x, MASS_MAX_X) THEN Zero ELSE MassDerivativeActive(x)

\* mass_derivative whose active mask leaves out x = 0
mass_derivative_array_OpenStart(x) ==
    [i \in 1..Len(x) |->
        IF FGt(x[i], Zero) /\ FLe(x[i], MASS_MAX_X) THEN MassDerivativeActive(x[i])
        ELSE Zero]

\* mass_derivative(x) for an array x: zeros, overwritten under mask_active
mass_derivative_array(x) ==
    [i \in 1..Len(x) |->
        IF FGe(x[i], Zero) /\ FLe(x[i], MASS_MAX_X) THEN MassDerivativeActive(x[i])
        ELSE Zero]

(***************************************************************************)
(* integrator.py: the helpers integrate_motion calls.                       *)
(***************************************************************************)
\* IntegrationResult.__init__
IntegrationResult(success_, message_, t_, v_, s_, time_to_20m_, top_speed_, top_speed_time_) ==
    [success |-> success_, message |-> message_, t |-> t_, v |-> v_, s |-> s_,
     time_to_20m |-> time_to_20m_, top_speed |-> top_speed_,
     top_speed_time |-> top_speed_time_]

\* len(np.arange(0, stop, step)) = ceil(stop / step), 0 when that is negative
ArangeLen(stop, step) ==
    LET k == FCeil(FDiv(stop, step)) IN IF k < 0 THEN 0 ELSE k

\* the grid built without the extra step (np.arange(0, max_time, dt))
Arange_Exclusive(stop, step) ==
    [k \in 1..ArangeLen(FSub(stop, step), step) |-> FMul(Int2F(k - 1), step)]

\* np.arange(0, stop, step): element k (counted from 0) is k * step
Arange(stop, step) ==
    [k \in 1..ArangeLen(stop, step) |-> FMul(Int2F(k - 1), step)]

\* the sample left as the division gave it
NanToNum_Untouched(x) == x

\* np.nan_to_num(x, nan=0.0, posinf=1e6, neginf=-1e6) for one sample
NanToNum(x) ==
    IF IsNaN(x) THEN Zero
    ELSE IF x = PosInf THEN Int2F(1000000)
    ELSE IF x = NegInf THEN Int2F(-1000000)
    ELSE x

\* a = zeros(n); a[m > 0] = F[m > 0] / m[m > 0]; followed by the NaN/Inf
\* check, which rewrites the non-finite samples and leaves the others
Acceleration(F, mm) ==
    [i \in 1..Len(F) |->
        NanToNum(IF FGt(mm[i], Zero) THEN FDiv(F[i], mm[i]) ELSE Zero)]

\* scipy.integrate.cumulative_trapezoid(y, x, initial=0)
RECURSIVE CumTrapzAt(_, _, _)
CumTrapzAt(y, x, i) ==
    IF i = 1 THEN Zero
    ELSE FAdd(CumTrapzAt(y, x, i - 1),
              FDiv(FMul(FSub(x[i], x[i - 1]), FAdd(y[i], y[i - 1])), Int2F(2)))

\* the left-endpoint (Euler) sum in place of the trapezoid rule
RECURSIVE EulerAt(_, _, _)
EulerAt(y, x, i) ==
    IF i = 1 THEN Zero
    ELSE FAdd(EulerAt(y, x, i - 1), FMul(FSub(x[i], x[i - 1]), y[i - 1]))

cumulative_trapezoid_Euler(y, x) == [i \in 1..Len(x) |-> EulerAt(y, x, i)]

cumulative_trapezoid(y, x) == [i \in 1..Len(x) |-> CumTrapzAt(y, x, i)]

\* the velocity left as integrated
ClampNonNegative_Skipped(v) == v

\* the clamp fed back into the integral: each sample is the clamped previous
\* sample plus the increment of v, clamped again
RECURSIVE RunningClampAt(_, _)
RunningClampAt(v, i) ==
    LET w == IF i = 1 THEN v[1] ELSE FAdd(RunningClampAt(v, i - 1), FSub(v[i], v[i - 1]))
    IN  IF FLt(w, Zero) THEN Zero ELSE w

ClampNonNegative_Running(v) == [i \in 1..Len(v) |-> RunningClampAt(v, i)]

\* np.maximum(v, 0)
ClampNonNegative(v) ==
    [i \in 1..Len(v) |-> IF FLt(v[i], Zero) THEN Zero ELSE v[i]]

\* np.where(s >= TARGET_DISPLACEMENT)[0], as the set of (1-based) indices
TargetIndices(s_) == {i \in 1..Len(s_) : FGe(s_[i], TARGET_DISPLACEMENT)}

\* the last element of the index array in place of the first
SetMin_Last(S) == CHOOSE k \in S : \A j \in S : k >= j

SetMin(S) == CHOOSE x \in S : \A y \in S : x <= y

\* Step 10 reporting the grid time of the first sample at or past the target
CrossingTime_GridPoint(t_, s_) ==
    LET idx_20m == TargetIndices(s_)
    IN  IF idx_20m # {} THEN Some(t_[SetMin(idx_20m)]) ELSE None

\* Step 10 of integrate_motion: time_to_20m (None when the target is not
\* reached)
CrossingTime(t_, s_) ==
    LET idx_20m == TargetIndices(s_)
    IN  IF idx_20m # {}
        THEN LET i == SetMin(idx_20m)
             IN  IF i > 1
                 THEN LET t1 == t_[i - 1]
                          t2 == t_[i]
                          s1 == s_[i - 1]
                          s2 == s_[i]
                      IN  IF FGt(s2, s1)
                          THEN Some(FAdd(t1, FDiv(FMul(FSub(TARGET_DISPLACEMENT, s1),
                                                       FSub(t2, t1)),
                                                  FSub(s2, s1))))
                          ELSE Some(t1)
                 ELSE Some(t_[1])
        ELSE None

\* the message of Step 10 quoting the first displacement sample (s[0])
CrossingMessage_FirstSample(t_, s_) ==
    LET tt == CrossingTime(t_, s_)
    IN  IF tt # None
        THEN Msg("Successfully reached 20m in {:.4f} seconds", tt)
        ELSE Msg("Did not reach 20m (max displacement: {:.2f}m)", Some(s_[1]))

\* the message of Step 10
CrossingMessage(t_, s_) ==
    LET tt == CrossingTime(t_, s_)
    IN  IF tt # None
        THEN Msg("Successfully reached 20m in {:.4f} seconds", tt)
        ELSE Msg("Did not reach 20m (max displacement: {:.2f}m)",
                 Some(s_[Len(s_)]))

\* the last index of the largest sample
ArgMax_Last(v) ==
    CHOOSE k \in 1..Len(v) :
        /\ \A j \in 1..Len(v) : FLe(v[j], v[k])
        /\ \A j \in (k + 1)..Len(v) : FLt(v[j], v[k])

\* np.argmax(v): the first index of the largest sample
ArgMax(v) ==
    CHOOSE k \in 1..Len(v) :
        /\ \A j \in 1..Len(v) : FLe(v[j], v[k])
        /\ \A j \in 1..(k - 1) : FLt(v[j], v[k])

\* an index expression x[k] (k >= 0, counted from 0) raises IndexError
\* when k is not below len(x)
IndexOk(x, k) == k < Len(x)

\* int(0.1/dt), int(1.0/dt): the samples the debug output reads
DebugIndex01(dt) == FTrunc(FDiv(Rat(1, 10), dt))
DebugIndex1(dt) == FTrunc(FDiv(Int2F(1), dt))

(***************************************************************************)
(* solver.py                                                                *)
(***************************************************************************)
\* SolverResult.__init__ (forces is None or the dictionary of series)
SolverResult(integration_result, cda_, forces, mass_value_) ==
    [success |-> integration_result.success,
     message |-> integration_result.message,
     t |-> integration_result.t,
     x |-> integration_result.t,
     v |-> integration_result.v,
     s |-> integration_result.s,
     time_to_20m |-> integration_result.time_to_20m,
     top_speed |-> integration_result.top_speed,
     top_speed_time |-> integration_result.top_speed_time,
     cda |-> cda_,
     mass_value |-> mass_value_,
     canister_force |-> IF forces # None THEN Some(forces[1].canister) ELSE None,
     drag_force |-> IF forces # None THEN Some(forces[1].drag) ELSE None,
     net_force |-> IF forces # None THEN Some(forces[1].net) ELSE None,
     acceleration |-> IF forces # None THEN Some(forces[1].acceleration) ELSE None,
     mass_values |-> IF forces # None THEN Some(forces[1].mass) ELSE None]

\* the rejection built with success=True
RejectedResult_Success(error_msg_, cda_, mass_value_) ==
    SolverResult(IntegrationResult(TRUE, error_msg_, None, None, None, None, None, None),
                 cda_, None, mass_value_)

\* the result solve_canister_car returns when validate_cda rejects the drag
\* area
RejectedResult(error_msg_, cda_, mass_value_) ==
    SolverResult(IntegrationResult(FALSE, error_msg_, None, None, None, None, None, None),
                 cda_, None, mass_value_)

\* the parameters integrate_motion declares
IntegrateMotionParams ==
    {"cda", "canister_force_func", "mass_func", "drag_force_func", "max_time", "accuracy"}

\* the keyword arguments solve_canister_car passes to integrate_motion
SolveCallKeywords ==
    {"cda", "canister_force_func", "mass_func", "drag_force_func", "max_time", "accuracy",
     "mass_value"}

\* the parameters mass declares, and the arguments compute_forces passes to
\* it in mass(t, mass_value)
MassParams == <<"x">>
ComputeForcesMassArgs == <<"t", "mass_value">>

\* np.linspace(start, stop, num): num evenly spaced samples, the last one set
\* to stop when there are at least two
Linspace(start, stop, num) ==
    [k \in 1..num |->
        IF num > 1 /\ k = num THEN stop
        ELSE IF num > 1
             THEN FAdd(start, FMul(Int2F(k - 1), FDiv(FSub(stop, start), Int2F(num - 1))))
             ELSE start]

\* np.interp(x, xp, fp) for one finite x and increasing xp: fp[0] at or before
\* xp[0], fp[-1] at or after xp[-1], linear between neighbours otherwise
InterpAt(xq, xp, fp) ==
    IF FLe(xq, xp[1]) THEN fp[1]
    ELSE IF FGe(xq, xp[Len(xp)]) THEN fp[Len(xp)]
    ELSE LET j == CHOOSE i \in 1..(Len(xp) - 1) : FLe(xp[i], xq) /\ FLt(xq, xp[i + 1])
             slope == FDiv(FSub(fp[j + 1], fp[j]), FSub(xp[j + 1], xp[j]))
         IN  FAdd(FMul(slope, FSub(xq, xp[j])), fp[j])

Interp(xq, xp, fp) == [k \in 1..Len(xq) |-> InterpAt(xq[k], xp, fp)]

\* the test of get_time_history's first statement without "t is None"
HasNoHistory_SuccessOnly(r) == ~r.success

\* not solver_result.success or solver_result.t is None
HasNoHistory(r) == ~r.success \/ r.t = None

\* solver_result.mass_values is not None and solver_result.canister_force is
\* not None
HasForces(r) == r.mass_values # None /\ r.canister_force # None

(***************************************************************************)
(* Inputs explored.                                                         *)
(***************************************************************************)
\* drag-area arguments given to solve_canister_car
CdaArgs ==
    {CdaNone, CdaList, CdaStr("abc"), CdaStr("0.5"), CdaStr("2"), CdaStr("nan"),
     CdaFloat(Int2F(-1)), CdaFloat(Zero), CdaFloat(Rat(1, 20000)), CdaFloat(MIN_CDA),
     CdaFloat(Rat(1, 50)), CdaFloat(Rat(1, 2)), CdaFloat(MAX_CDA), CdaFloat(Rat(3, 2)),
     CdaFloat(Int2F(2)), CdaFloat(NaN), CdaFloat(PosInf), CdaFloat(NegInf)}

\* drag areas given to integrate_motion directly (all pass validate_cda)
EngineCdaArgs == {CdaFloat(Rat(1, 50)), CdaFloat(MAX_CDA)}

\* max_time and accuracy values, in seconds (all positive)
MaxTimeVals == {Rat(1, 20), Rat(1, 2), Int2F(4), Int2F(6)}
AccuracyVals == {Rat(1, 20), Rat(1, 2), Int2F(2)}

MassValueVals == {MASS_BASE_M, Rat(1, 10)}

\* values the thrust and mass callables return at a grid point
ForceVals == {Int2F(-3), Zero, Int2F(3), NaN}
MassVals == {Zero, Rat(1, 2), Int2F(1)}

\* the same for degenerate callables: non-finite thrust, and a mass that is
\* negative, zero or non-finite
DegenerateForceVals == {Int2F(3), NaN, PosInf, NegInf}
DegenerateMassVals == {Int2F(-1), Zero, Int2F(1), PosInf, NaN}

\* the runs with degenerate callables: grids of at most 3 samples, among
\* them the empty grid of a max_time with max_time + accuracy <= 0, and the
\* drag area 2000/120473 (about 0.0166), for which 0.5 * AIR_DENSITY * cda is
\* exactly 1/100
DegenerateCdaArgs == {CdaFloat(Rat(2000, 120473))}
DegenerateMaxTimeVals == {Int2F(-4), Int2F(-2), Rat(1, 20), Rat(1, 2), Int2F(4)}

ThrustReturns(kind) == IF kind = "degenerate" THEN DegenerateForceVals ELSE ForceVals
MassReturns(kind) == IF kind = "degenerate" THEN DegenerateMassVals ELSE MassVals

\* the grid integrate_motion builds has ArangeLen(max_time + dt, dt) samples
GridLen(max_time_, dt) == ArangeLen(FAdd(max_time_, dt), dt)

VARIABLES
    entry,          \* the function called: "solve_canister_car" or "integrate_motion"
    callables,      \* the thrust and mass callables given: "ordinary" or "degenerate"
    pc,             \* position in the running function; "returned" or "raised" at the end
    cda, max_time, accuracy, mass_value,    \* the arguments
    is_valid, error_msg,                    \* solve_canister_car's locals
    calls,          \* the functions called so far, in order
    exc,            \* the exception raised ("" when none)
    ret,            \* the returned object (None until the function returns)
    t, F_canister, m, a_canister, v_nodrag, F_drag, F_resultant, a_actual,
    v_actual, s, time_to_20m, message, top_speed, top_speed_time,
                    \* integrate_motion's locals
    xs,             \* the array argument x of canister_force or mass
    result_array,   \* what the function returns for the array xs
    result_scalar,  \* what it returns for each element of xs passed as a scalar
    solver_result, num_points,      \* the arguments of get_time_history
    t_interp, v_interp, s_interp,   \* get_time_history's locals
    calculating, current_result,    \* CanisterCarGUI's fields
    cda_var, interp_time_var, accuracy_var,     \* the texts of its entry fields
    time_20m_var, top_speed_var, status_var,    \* the texts it displays
    calculate_button,   \* the state of the Calculate button
    progress,           \* whether the progress bar is running
    figure,             \* what the figure shows: "welcome" or "plots"
    dialog,             \* the title of the last message box shown ("" when none)
    threads,            \* the worker threads started and not yet finished
    after_queue,        \* the callbacks posted with root.after, oldest first
    started,            \* the number of worker threads started so far
    handled,            \* the callbacks the main thread has run, in order
    cleared             \* Clear was pressed since the running calculation started

inputs == <<entry, callables, cda, max_time, accuracy, mass_value, xs, solver_result,
            num_points>>
modelResults == <<result_array, result_scalar>>
historyLocals == <<t_interp, v_interp, s_interp>>
solveLocals == <<is_valid, error_msg>>
series == <<t, F_canister, m, a_canister, v_nodrag, F_drag, F_resultant, a_actual,
            v_actual, s>>
derived == <<time_to_20m, message, top_speed, top_speed_time>>
fields == <<cda_var, interp_time_var, accuracy_var>>
display == <<time_20m_var, top_speed_var, status_var, calculate_button, progress, figure,
             dialog>>
gui == <<calculating, current_result, fields, display, threads, after_queue, started,
         handled, cleared>>
vars == <<inputs, pc, solveLocals, calls, exc, ret, series, derived, modelResults,
          historyLocals, gui>>

\* CanisterCarGUI.__init__: the window as it is built, no calculation started
WindowBuilt ==
    /\ calculating = FALSE
    /\ current_result = None
    /\ cda_var = "0.5" /\ interp_time_var = "5.0" /\ accuracy_var = "0.000001"
    /\ time_20m_var = Msg("---", None) /\ top_speed_var = Msg("---", None)
    /\ status_var = Msg("Ready", None)
    /\ calculate_button = "normal"
    /\ progress = FALSE
    /\ figure = "welcome"
    /\ dialog = ""
    /\ threads = {}
    /\ after_queue = <<>>
    /\ started = 0
    /\ handled = <<>>
    /\ cleared = FALSE

\* no statement of the called function has run yet
NothingDone ==
    /\ is_valid = FALSE
    /\ error_msg = Msg("", None)
    /\ calls = <<entry>>
    /\ exc = ""
    /\ ret = None
    /\ t = <<>> /\ F_canister = <<>> /\ m = <<>> /\ a_canister = <<>>
    /\ v_nodrag = <<>> /\ F_drag = <<>> /\ F_resultant = <<>> /\ a_actual = <<>>
    /\ v_actual = <<>> /\ s = <<>>
    /\ time_to_20m = None /\ message = Msg("", None)
    /\ top_speed = None /\ top_speed_time = None
    /\ result_array = None /\ result_scalar = None
    /\ t_interp = <<>> /\ v_interp = <<>> /\ s_interp = <<>>
    /\ WindowBuilt

\* a call of solve_canister_car, or of integrate_motion with callables of the
\* given kind, a drag area of engineCdas and a max_time of maxTimes
Start(kind, engineCdas, maxTimes) ==
    /\ entry \in {"solve_canister_car", "integrate_motion"}
    /\ callables = kind
    /\ max_time \in maxTimes
    /\ accuracy \in AccuracyVals
    /\ IF entry = "solve_canister_car"
       THEN /\ cda \in CdaArgs
            /\ mass_value \in MassValueVals
            /\ pc = "solve_start"
       ELSE /\ cda \in engineCdas
            /\ mass_value = MASS_BASE_M
            /\ GridLen(max_time, accuracy) <= MaxN
            /\ pc = "im_start"
    /\ xs = <<>>
    /\ solver_result = None /\ num_points = 0
    /\ NothingDone

Init == Start("ordinary", EngineCdaArgs, MaxTimeVals)

InitDegenerate == Start("degenerate", DegenerateCdaArgs, DegenerateMaxTimeVals)

(***************************************************************************)
(* solve_canister_car                                                       *)
(***************************************************************************)
\* is_valid, error_msg = validate_cda(cda)
SolveValidate ==
    /\ pc = "solve_start"
    /\ is_valid' = validate_cda(cda)[1]
    /\ error_msg' = validate_cda(cda)[2]
    /\ calls' = Append(calls, "validate_cda")
    /\ pc' = "solve_validated"
    /\ UNCHANGED <<gui, inputs, modelResults, historyLocals, exc, ret, series, derived>>

\* if not is_valid: return SolverResult(IntegrationResult(False, error_msg), ...)
SolveReject ==
    /\ pc = "solve_validated"
    /\ ~is_valid
    /\ ret' = Some(RejectedResult(error_msg, cda, mass_value))
    /\ pc' = "returned"
    /\ UNCHANGED <<gui, inputs, modelResults, historyLocals, solveLocals, calls, exc, series, derived>>

\* integration_result = integrate_motion(cda=..., ..., mass_value=mass_value):
\* a keyword integrate_motion does not declare raises TypeError before its
\* body runs, so the statements after the call (solver.py lines 136-160) are
\* never reached
SolveIntegrate ==
    /\ pc = "solve_validated"
    /\ is_valid
    /\ calls' = Append(calls, "integrate_motion")
    /\ IF SolveCallKeywords \subseteq IntegrateMotionParams
       THEN /\ pc' = "im_start"
            /\ exc' = exc
       ELSE /\ pc' = "raised"
            /\ exc' = "TypeError"
    /\ UNCHANGED <<gui, inputs, modelResults, historyLocals, solveLocals, ret, series, derived>>

(***************************************************************************)
(* integrate_motion, one action per step of its body.  The debug output is  *)
(* part of the body: an index it reads beyond the grid raises IndexError.   *)
(***************************************************************************)
Raise(e) ==
    /\ pc' = "raised"
    /\ exc' = e

Goto(l) ==
    /\ pc' = l
    /\ exc' = exc

\* dt = accuracy; t = np.arange(0, max_time + dt, dt)
BuildGrid ==
    /\ pc = "im_start"
    /\ t' = Arange(FAdd(max_time, accuracy), accuracy)
    /\ Goto("im_force")
    /\ UNCHANGED <<gui, inputs, modelResults, historyLocals, solveLocals, calls, ret, derived, F_canister, m, a_canister,
                   v_nodrag, F_drag, F_resultant, a_actual, v_actual, s>>

\* Step 1: F_canister = canister_force_func(t), then the debug output
\* np.min(F_canister), np.max(F_canister) (ValueError on an empty array; the
\* later series have the same length), F_canister[0] and
\* F_canister[int(0.1/dt)]
SampleForce ==
    /\ pc = "im_force"
    /\ \E F \in [1..Len(t) -> ThrustReturns(callables)] : F_canister' = F
    /\ IF Len(t) = 0
       THEN Raise("ValueError")
       ELSE IF IndexOk(t, 0) /\ IndexOk(t, DebugIndex01(accuracy))
            THEN Goto("im_mass")
            ELSE Raise("IndexError")
    /\ UNCHANGED <<gui, inputs, modelResults, historyLocals, solveLocals, calls, ret, derived, t, m, a_canister,
                   v_nodrag, F_drag, F_resultant, a_actual, v_actual, s>>

\* Step 2: m = mass_func(t), then the debug output m[0]
SampleMass ==
    /\ pc = "im_mass"
    /\ \E mm \in [1..Len(t) -> MassReturns(callables)] : m' = mm
    /\ IF IndexOk(t, 0) THEN Goto("im_a_canister") ELSE Raise("IndexError")
    /\ UNCHANGED <<gui, inputs, modelResults, historyLocals, solveLocals, calls, ret, derived, t, F_canister, a_canister,
                   v_nodrag, F_drag, F_resultant, a_actual, v_actual, s>>

\* Step 3: a_canister = F_canister / m where m > 0, else 0; NaN/Inf replaced
CanisterAcceleration ==
    /\ pc = "im_a_canister"
    /\ a_canister' = Acceleration(F_canister, m)
    /\ Goto("im_v_nodrag")
    /\ UNCHANGED <<gui, inputs, modelResults, historyLocals, solveLocals, calls, ret, derived, t, F_canister, m,
                   v_nodrag, F_drag, F_resultant, a_actual, v_actual, s>>

\* Step 4: v_nodrag = cumulative_trapezoid(a_canister, t, initial=0), then the
\* debug output v_nodrag[int(0.1/dt)] and v_nodrag[int(1.0/dt)]
NoDragVelocity ==
    /\ pc = "im_v_nodrag"
    /\ v_nodrag' = cumulative_trapezoid(a_canister, t)
    /\ IF IndexOk(t, DebugIndex01(accuracy)) /\ IndexOk(t, DebugIndex1(accuracy))
       THEN Goto("im_drag")
       ELSE Raise("IndexError")
    /\ UNCHANGED <<gui, inputs, modelResults, historyLocals, solveLocals, calls, ret, derived, t, F_canister, m,
                   a_canister, F_drag, F_resultant, a_actual, v_actual, s>>

\* Step 5: F_drag = drag_force_func(v_nodrag, cda); runs are followed while
\* the no-drag speed stays within MaxSpeed
DragForce ==
    /\ pc = "im_drag"
    /\ \A i \in 1..Len(t) : FLe(v_nodrag[i], Int2F(MaxSpeed))
    /\ F_drag' = [i \in 1..Len(t) |-> drag_force(v_nodrag[i], cda.val)]
    /\ Goto("im_net")
    /\ UNCHANGED <<gui, inputs, modelResults, historyLocals, solveLocals, calls, ret, derived, t, F_canister, m,
                   a_canister, v_nodrag, F_resultant, a_actual, v_actual, s>>

\* Step 6: F_resultant = F_canister - F_drag
NetForce ==
    /\ pc = "im_net"
    /\ F_resultant' = [i \in 1..Len(t) |-> FSub(F_canister[i], F_drag[i])]
    /\ Goto("im_a_actual")
    /\ UNCHANGED <<gui, inputs, modelResults, historyLocals, solveLocals, calls, ret, derived, t, F_canister, m,
                   a_canister, v_nodrag, F_drag, a_actual, v_actual, s>>

\* Step 7: a_actual = F_resultant / m where m > 0, else 0; NaN/Inf replaced
ActualAcceleration ==
    /\ pc = "im_a_actual"
    /\ a_actual' = Acceleration(F_resultant, m)
    /\ Goto("im_v_actual")
    /\ UNCHANGED <<gui, inputs, modelResults, historyLocals, solveLocals, calls, ret, derived, t, F_canister, m,
                   a_canister, v_nodrag, F_drag, F_resultant, v_actual, s>>

\* Step 8: v_actual = cumulative_trapezoid(a_actual, t, initial=0), then the
\* debug output v_actual[int(0.1/dt)] and v_actual[int(1.0/dt)]
ActualVelocity ==
    /\ pc = "im_v_actual"
    /\ v_actual' = cumulative_trapezoid(a_actual, t)
    /\ IF IndexOk(t, DebugIndex01(accuracy)) /\ IndexOk(t, DebugIndex1(accuracy))
       THEN Goto("im_clamp")
       ELSE Raise("IndexError")
    /\ UNCHANGED <<gui, inputs, modelResults, historyLocals, solveLocals, calls, ret, derived, t, F_canister, m,
                   a_canister, v_nodrag, F_drag, F_resultant, a_actual, s>>

\* v_actual = np.maximum(v_actual, 0)
ClampVelocity ==
    /\ pc = "im_clamp"
    /\ v_actual' = ClampNonNegative(v_actual)
    /\ Goto("im_s")
    /\ UNCHANGED <<gui, inputs, modelResults, historyLocals, solveLocals, calls, ret, derived, t, F_canister, m,
                   a_canister, v_nodrag, F_drag, F_resultant, a_actual, s>>

\* Step 9: s = cumulative_trapezoid(v_actual, t, initial=0), then the debug
\* output s[int(1.0/dt)] and s[min(int(5.0/dt), len(s)-1)]
Displacement ==
    /\ pc = "im_s"
    /\ s' = cumulative_trapezoid(v_actual, t)
    /\ IF IndexOk(t, DebugIndex1(accuracy))
       THEN Goto("im_target")
       ELSE Raise("IndexError")
    /\ UNCHANGED <<gui, inputs, modelResults, historyLocals, solveLocals, calls, ret, derived, t, F_canister, m,
                   a_canister, v_nodrag, F_drag, F_resultant, a_actual, v_actual>>

\* Step 10: time_to_20m and the message
FindTarget ==
    /\ pc = "im_target"
    /\ time_to_20m' = CrossingTime(t, s)
    /\ message' = CrossingMessage(t, s)
    /\ Goto("im_top_speed")
    /\ UNCHANGED <<gui, inputs, modelResults, historyLocals, solveLocals, calls, ret, series, top_speed, top_speed_time>>

\* top speed, and return IntegrationResult(success=True, ...)
TopSpeedAndReturn ==
    /\ pc = "im_top_speed"
    /\ LET max_v_idx == ArgMax(v_actual)
           ts == IF Len(v_actual) > 0 THEN Some(v_actual[max_v_idx]) ELSE None
           tst == IF Len(v_actual) > 0 THEN Some(t[max_v_idx]) ELSE None
       IN  /\ top_speed' = ts
           /\ top_speed_time' = tst
           /\ ret' = Some(IntegrationResult(TRUE, message, Some(t), Some(v_actual), Some(s),
                                            time_to_20m, ts, tst))
    /\ Goto("returned")
    /\ UNCHANGED <<gui, inputs, modelResults, historyLocals, solveLocals, calls, series, time_to_20m, message>>

(***************************************************************************)
(* canister_force, mass and mass_derivative called on their own, once with  *)
(* the array xs and once with each element of xs as a scalar.               *)
(***************************************************************************)
\* times given to canister_force, in seconds: both sides of every regime
\* boundary, the boundaries themselves, and the non-finite floats
ThrustTimes ==
    {NegInf, Int2F(-1), Rat(-1, 1000000), Zero, Rat(1, 10), Rat(1306114, 10000000),
     X_RANGE_1_END, Rat(1, 2), Rat(849992, 1000000), X_RANGE_2_END, Int2F(1),
     X_RANGE_3_END, Rat(1280276, 1000000), Int2F(2), PosInf, NaN}

\* times given to mass, in seconds; those inside the burn are multiples of
\* MASS_MAX_X / 83 = 617/40000
MassTimes ==
    {NegInf, Int2F(-1), Rat(-1, 1000000), Zero, Rat(617, 40000), Rat(41 * 617, 40000),
     Rat(82 * 617, 40000), MASS_MAX_X, Rat(1280276, 1000000), Int2F(2), PosInf, NaN}

ModelTimes(fn) == IF fn = "canister_force" THEN ThrustTimes ELSE MassTimes

\* arrays of at most MaxArgs times
ModelArgs(fn) == UNION {[1..n -> ModelTimes(fn)] : n \in 0..MaxArgs}

InitModels ==
    /\ entry \in {"canister_force", "mass", "mass_derivative"}
    /\ callables = "ordinary"
    /\ xs \in ModelArgs(entry)
    /\ cda = CdaNone /\ max_time = Zero /\ accuracy = Zero /\ mass_value = MASS_BASE_M
    /\ solver_result = None /\ num_points = 0
    /\ pc = "array_call"
    /\ NothingDone

\* canister_force(x), mass(x) or mass_derivative(x) with the array x
CallWithArray ==
    /\ pc = "array_call"
    /\ result_array' = Some(IF entry = "canister_force" THEN canister_force_array(xs)
                            ELSE IF entry = "mass" THEN mass_array(xs)
                            ELSE mass_derivative_array(xs))
    /\ pc' = "scalar_calls"
    /\ UNCHANGED <<gui, inputs, solveLocals, calls, exc, ret, series, derived, result_scalar,
                   historyLocals>>

\* [f(v) for v in x] for f = canister_force, mass or mass_derivative
CallWithScalars ==
    /\ pc = "scalar_calls"
    /\ result_scalar' =
           Some([i \in 1..Len(xs) |-> IF entry = "canister_force"
                                       THEN canister_force_scalar(xs[i])
                                       ELSE IF entry = "mass"
                                            THEN mass_scalar(xs[i])
                                            ELSE mass_derivative_scalar(xs[i])])
    /\ pc' = "returned"
    /\ UNCHANGED <<gui, inputs, solveLocals, calls, exc, ret, series, derived, result_array,
                   historyLocals>>

NextModels == CallWithArray \/ CallWithScalars

SpecModels == InitModels /\ [][NextModels]_vars

(***************************************************************************)
(* get_time_history                                                         *)
(***************************************************************************)
\* time series of stored results: the grids integrate_motion builds for
\* dt = 2 s (2 and 3 samples)
HistoryGrids == {Arange(FAdd(mt, Int2F(2)), Int2F(2)) : mt \in {Rat(1, 2), Int2F(4)}}

\* speeds and thrusts of stored results
HistorySpeeds == {Zero, Int2F(3), Int2F(12)}
HistoryThrusts == {Zero, Int2F(3)}

\* a result as solve_canister_car is written to build it from an integration
\* with time series t_, speeds v_ and thrusts F (constant mass 1/2, drag area
\* 0.02), with or without the force series
StoredResult(success_, t_, v_, F, withForces) ==
    LET s_ == cumulative_trapezoid(v_, t_)
        c == CdaFloat(Rat(1, 50))
        drag == [i \in 1..Len(t_) |-> drag_force(v_[i], c.val)]
        net == [i \in 1..Len(t_) |-> FSub(F[i], drag[i])]
        mm == [i \in 1..Len(t_) |-> Rat(1, 2)]
        forces == [canister |-> F, drag |-> drag, net |-> net,
                   acceleration |-> Acceleration(net, mm), mass |-> mm]
    IN  SolverResult(IntegrationResult(success_, CrossingMessage(t_, s_), Some(t_), Some(v_),
                                       Some(s_), CrossingTime(t_, s_),
                                       Some(v_[ArgMax(v_)]), Some(t_[ArgMax(v_)])),
                     c, IF withForces THEN Some(forces) ELSE None, MASS_BASE_M)

\* a result that carries no series (what IntegrationResult(success, message)
\* gives)
EmptyResult(success_) ==
    SolverResult(IntegrationResult(success_, Msg("", None), None, None, None, None, None, None),
                 CdaFloat(Rat(1, 50)), None, MASS_BASE_M)

HistoryResults ==
    {EmptyResult(b) : b \in BOOLEAN}
    \cup
    UNION {{StoredResult(b, g, v_, F, w) :
               v_ \in {f \in [1..Len(g) -> HistorySpeeds] : f[1] = Zero},
               F \in [1..Len(g) -> HistoryThrusts],
               b \in BOOLEAN, w \in BOOLEAN} : g \in HistoryGrids}

InitHistory ==
    /\ entry = "get_time_history"
    /\ callables = "ordinary"
    /\ solver_result \in HistoryResults
    /\ num_points \in 1..MaxPoints
    /\ cda = CdaNone /\ max_time = Zero /\ accuracy = Zero /\ mass_value = MASS_BASE_M
    /\ xs = <<>>
    /\ pc = "gth_start"
    /\ NothingDone

\* if not solver_result.success or solver_result.t is None: return None
HistoryReturnNone ==
    /\ pc = "gth_start"
    /\ HasNoHistory(solver_result)
    /\ ret' = Some(None)
    /\ Goto("returned")
    /\ UNCHANGED <<gui, inputs, modelResults, historyLocals, solveLocals, calls, series, derived>>

\* t_interp = np.linspace(t[0], t[-1], num_points); v_interp and s_interp by
\* np.interp.  Subscripting a t that is None raises TypeError, an empty one
\* IndexError.
HistoryInterpolate ==
    /\ pc = "gth_start"
    /\ ~HasNoHistory(solver_result)
    /\ IF solver_result.t = None
       THEN /\ Raise("TypeError")
            /\ UNCHANGED historyLocals
       ELSE LET t_ == solver_result.t[1]
                ti == Linspace(t_[1], t_[Len(t_)], num_points)
            IN  IF Len(t_) = 0
                THEN /\ Raise("IndexError")
                     /\ UNCHANGED historyLocals
                ELSE /\ t_interp' = ti
                     /\ v_interp' = Interp(ti, t_, solver_result.v[1])
                     /\ s_interp' = Interp(ti, t_, solver_result.s[1])
                     /\ Goto("gth_forces")
    /\ UNCHANGED <<gui, inputs, modelResults, solveLocals, calls, ret, series, derived>>

\* the force, acceleration and mass series are interpolated from the result
\* and the view is returned
HistoryReuse ==
    /\ pc = "gth_forces"
    /\ HasForces(solver_result)
    /\ LET t_ == solver_result.t[1]
       IN  ret' = Some([t |-> t_interp, x |-> t_interp, v |-> v_interp, s |-> s_interp,
                        canister_force |-> Interp(t_interp, t_, solver_result.canister_force[1]),
                        drag_force |-> Interp(t_interp, t_, solver_result.drag_force[1]),
                        net_force |-> Interp(t_interp, t_, solver_result.net_force[1]),
                        acceleration |-> Interp(t_interp, t_, solver_result.acceleration[1]),
                        mass |-> Interp(t_interp, t_, solver_result.mass_values[1])])
    /\ Goto("returned")
    /\ UNCHANGED <<gui, inputs, modelResults, historyLocals, solveLocals, calls, series, derived>>

\* else: forces_interp = compute_forces(t_interp, v_interp, cda, mass_value),
\* whose first statement mass(t, mass_value) passes two arguments to a
\* function of one parameter: TypeError, so no later statement of
\* compute_forces or get_time_history runs
HistoryFallback ==
    /\ pc = "gth_forces"
    /\ ~HasForces(solver_result)
    /\ calls' = calls \o <<"compute_forces", "mass">>
    /\ IF Len(ComputeForcesMassArgs) <= Len(MassParams)
       THEN Goto("cf_canister")
       ELSE Raise("TypeError")
    /\ UNCHANGED <<gui, inputs, modelResults, historyLocals, solveLocals, ret, series, derived>>

NextHistory ==
    \/ HistoryReturnNone
    \/ HistoryInterpolate
    \/ HistoryReuse
    \/ HistoryFallback

SpecHistory == InitHistory /\ [][NextHistory]_vars

Next ==
    \/ SolveValidate
    \/ SolveReject
    \/ SolveIntegrate
    \/ BuildGrid
    \/ SampleForce
    \/ SampleMass
    \/ CanisterAcceleration
    \/ NoDragVelocity
    \/ DragForce
    \/ NetForce
    \/ ActualAcceleration
    \/ ActualVelocity
    \/ ClampVelocity
    \/ Displacement
    \/ FindTarget
    \/ TopSpeedAndReturn

Spec == Init /\ [][Next]_vars

SpecDegenerate == InitDegenerate /\ [][Next]_vars

(***************************************************************************)
(* gui.py: CanisterCarGUI.  The handlers run on the main thread, one at a   *)
(* time, called by the event loop; a worker thread touches no field of the  *)
(* window and hands its outcome to the main thread with root.after.  A      *)
(* message box is recorded by its title; the event loop it runs while it is *)
(* open is not modelled.                                                    *)
(***************************************************************************)
\* the calculations one run of the window starts
MaxCalculations == 3

\* the texts a user types into the entry fields
CdaTexts == {"0.5", "2", "nan", "abc"}
InterpTimeTexts == {"5.0", "10.0", "-1", "abc"}
AccuracyTexts == {"0.000001", "-1", "abc"}

\* the text of an empty result field
Blank == Msg("---", None)

engine == <<inputs, pc, solveLocals, calls, exc, ret, series, derived, modelResults,
            historyLocals>>

\* float(var.get())
FieldFloat(text) == PyFloat(CdaStr(text))

\* solve_canister_car(cda, interp_time, accuracy) as the worker calls it: the
\* rejection when validate_cda refuses the drag area, TypeError from the call
\* of integrate_motion with a keyword it does not declare, and otherwise a
\* result that carries the series of an integration
SolveOutcomes(cda_, max_time_, accuracy_) ==
    LET v == validate_cda(CdaFloat(cda_))
    IN  IF ~v[1]
        THEN {[raised |-> FALSE, exception |-> "",
               result |-> Some(RejectedResult(v[2], CdaFloat(cda_), MASS_BASE_M))]}
        ELSE IF ~(SolveCallKeywords \subseteq IntegrateMotionParams)
             THEN {[raised |-> TRUE, exception |-> "TypeError", result |-> None]}
             ELSE {[raised |-> FALSE, exception |-> "", result |-> Some(r)] :
                      r \in {h \in HistoryResults : h.t # None}}

InitGui ==
    /\ entry = "gui"
    /\ callables = "ordinary"
    /\ cda = CdaNone /\ max_time = Zero /\ accuracy = Zero /\ mass_value = MASS_BASE_M
    /\ xs = <<>>
    /\ solver_result = None /\ num_points = 0
    /\ pc = "mainloop"
    /\ NothingDone

\* the user edits one of the entry fields
UserTypes ==
    /\ \/ cda_var' \in CdaTexts /\ UNCHANGED <<interp_time_var, accuracy_var>>
       \/ interp_time_var' \in InterpTimeTexts /\ UNCHANGED <<cda_var, accuracy_var>>
       \/ accuracy_var' \in AccuracyTexts /\ UNCHANGED <<cda_var, interp_time_var>>
    /\ UNCHANGED <<engine, calculating, current_result, display, threads, after_queue,
                   started, handled, cleared>>

\* _on_calculate with the test of self.calculating left out
OnCalculate_NoGuard ==
    LET c == FieldFloat(cda_var)
        it == FieldFloat(interp_time_var)
        ac == FieldFloat(accuracy_var)
        Refuse(title) ==
            /\ dialog' = title
            /\ UNCHANGED <<calculating, current_result, time_20m_var, top_speed_var,
                           status_var, calculate_button, progress, figure, threads,
                           started, cleared>>
    IN  /\ IF ~c[1] \/ FLt(c[2], MIN_CDA) \/ FGt(c[2], MAX_CDA)
              \/ ~it[1] \/ FLe(it[2], Zero) \/ ~ac[1] \/ FLe(ac[2], Zero)
           THEN Refuse("Invalid Input")
           ELSE /\ started < MaxCalculations
                /\ dialog' = IF FLt(ac[2], Rat(1, 100000000)) THEN "Large Accuracy Value"
                             ELSE IF FGt(it[2], Int2F(100)) THEN "Large Time Value"
                             ELSE dialog
                /\ calculating' = TRUE
                /\ calculate_button' = "disabled"
                /\ status_var' = Msg("Calculating for CdA = {:.4f} m2...", Some(c[2]))
                /\ progress' = TRUE
                /\ threads' = threads \cup {[id |-> started + 1, cda |-> c[2],
                                             interp_time |-> it[2], accuracy |-> ac[2]]}
                /\ started' = started + 1
                /\ cleared' = FALSE
                /\ UNCHANGED <<current_result, time_20m_var, top_speed_var, figure>>
        /\ UNCHANGED <<engine, fields, after_queue, handled>>

\* _on_calculate, the handler of the Calculate button and of the Return key
\* in the three entry fields
OnCalculate ==
    LET c == FieldFloat(cda_var)
        it == FieldFloat(interp_time_var)
        ac == FieldFloat(accuracy_var)
        Refuse(title) ==
            /\ dialog' = title
            /\ UNCHANGED <<calculating, current_result, time_20m_var, top_speed_var,
                           status_var, calculate_button, progress, figure, threads,
                           started, cleared>>
    IN  /\ IF calculating
           THEN Refuse("Calculation in Progress")
           ELSE IF ~c[1] \/ FLt(c[2], MIN_CDA) \/ FGt(c[2], MAX_CDA)
                   \/ ~it[1] \/ FLe(it[2], Zero) \/ ~ac[1] \/ FLe(ac[2], Zero)
           THEN Refuse("Invalid Input")
           ELSE /\ started < MaxCalculations
                /\ dialog' = IF FLt(ac[2], Rat(1, 100000000)) THEN "Large Accuracy Value"
                             ELSE IF FGt(it[2], Int2F(100)) THEN "Large Time Value"
                             ELSE dialog
                /\ calculating' = TRUE
                /\ calculate_button' = "disabled"
                /\ status_var' = Msg("Calculating for CdA = {:.4f} m2...", Some(c[2]))
                /\ progress' = TRUE
                /\ threads' = threads \cup {[id |-> started + 1, cda |-> c[2],
                                             interp_time |-> it[2], accuracy |-> ac[2]]}
                /\ started' = started + 1
                /\ cleared' = FALSE
                /\ UNCHANGED <<current_result, time_20m_var, top_speed_var, figure>>
        /\ UNCHANGED <<engine, fields, after_queue, handled>>

\* the entry of the after queue a worker posts for its outcome o
PostedCallback(w, o) ==
    IF o.raised
    THEN [callback |-> "_on_calculation_error", id |-> w.id, raised |-> TRUE,
          result |-> None,
          error_msg |-> Msg("Calculation error: {}", Some(o.exception))]
    ELSE [callback |-> "_on_calculation_complete", id |-> w.id, raised |-> FALSE,
          result |-> Some(o.result[1] @@ [interp_time |-> w.interp_time]),
          error_msg |-> Msg("", None)]

\* _run_calculation without the except clause: an exception ends the thread
WorkerRuns_Uncaught ==
    /\ \E w \in threads : \E o \in SolveOutcomes(w.cda, w.interp_time, w.accuracy) :
          /\ threads' = threads \ {w}
          /\ after_queue' = IF o.raised THEN after_queue
                            ELSE Append(after_queue, PostedCallback(w, o))
    /\ UNCHANGED <<engine, calculating, current_result, fields, display, started, handled,
                   cleared>>

\* _run_calculation, on the worker thread: the call of solve_canister_car
\* and the root.after that hands the result, or the exception, to the main
\* thread
WorkerRuns ==
    /\ \E w \in threads : \E o \in SolveOutcomes(w.cda, w.interp_time, w.accuracy) :
          /\ threads' = threads \ {w}
          /\ after_queue' = Append(after_queue, PostedCallback(w, o))
    /\ UNCHANGED <<engine, calculating, current_result, fields, display, started, handled,
                   cleared>>

\* _clear_results
ClearResults ==
    /\ time_20m_var' = Blank
    /\ top_speed_var' = Blank

\* _on_calculation_complete(result); _update_plots draws the plots
OnCalculationComplete(result) ==
    /\ calculating' = FALSE
    /\ calculate_button' = "normal"
    /\ progress' = FALSE
    /\ current_result' = Some(result)
    /\ IF result.success
       THEN /\ IF result.time_to_20m # None
               THEN /\ time_20m_var' = Msg("{:.12f}", result.time_to_20m)
                    /\ status_var' = Msg("Success: Reached 20m in {:.4f} seconds",
                                         result.time_to_20m)
               ELSE /\ time_20m_var' = Msg("Did not reach 20m", None)
                    /\ status_var' =
                           Msg("Warning: Did not reach 20m (max: {:.4f}m)",
                               IF result.s # None /\ Len(result.s[1]) > 0
                               THEN Some(result.s[1][Len(result.s[1])])
                               ELSE Some(Zero))
            /\ top_speed_var' = IF result.top_speed # None
                                THEN Msg("{:.12f}", result.top_speed)
                                ELSE Blank
            /\ figure' = "plots"
            /\ dialog' = dialog
       ELSE /\ status_var' = Msg("Error: {}", Some(result.message))
            /\ dialog' = "Calculation Error"
            /\ ClearResults
            /\ figure' = figure

\* _on_calculation_error(error_msg)
OnCalculationError(error_msg_) ==
    /\ calculating' = FALSE
    /\ calculate_button' = "normal"
    /\ progress' = FALSE
    /\ status_var' = Msg("Error occurred", None)
    /\ dialog' = "Calculation Error"
    /\ UNCHANGED <<current_result, time_20m_var, top_speed_var, figure>>

\* the event loop runs the oldest callback posted with root.after(0, ...)
MainloopRunsCallback ==
    /\ after_queue # <<>>
    /\ LET cb == Head(after_queue)
       IN  /\ IF cb.callback = "_on_calculation_complete"
              THEN OnCalculationComplete(cb.result[1])
              ELSE OnCalculationError(cb.error_msg)
           /\ handled' = Append(handled, [id |-> cb.id, callback |-> cb.callback,
                                          raised |-> cb.raised])
    /\ after_queue' = Tail(after_queue)
    /\ UNCHANGED <<engine, fields, threads, started, cleared>>

\* _on_clear, the handler of the Clear button
OnClear ==
    /\ cda_var' = "0.5"
    /\ interp_time_var' = "10.0"
    /\ ClearResults
    /\ figure' = "welcome"
    /\ status_var' = Msg("Ready", None)
    /\ current_result' = None
    /\ cleared' = (cleared \/ calculating)
    /\ UNCHANGED <<engine, accuracy_var, calculating, calculate_button, progress, dialog,
                   threads, after_queue, started, handled>>

NextGui ==
    \/ UserTypes
    \/ OnCalculate
    \/ WorkerRuns
    \/ MainloopRunsCallback
    \/ OnClear

SpecGui == InitGui /\ [][NextGui]_vars

\* the operating system schedules a started thread, and the event loop keeps
\* running the callbacks posted to it
SpecGuiFair == SpecGui /\ WF_vars(WorkerRuns) /\ WF_vars(MainloopRunsCallback)

(***************************************************************************)
(* Properties.                                                              *)
(***************************************************************************)
Solving == entry = "solve_canister_car"
Engine == entry = "integrate_motion"
Range(f) == {f[i] : i \in DOMAIN f}
Positive(x) == FGt(x, Zero)

\* integrate_motion has computed time_to_20m and the message
TargetSearched == Engine /\ pc \in {"im_top_speed", "returned"}

\* the first grid index whose displacement is at or past the target
Reached == {i \in 1..Len(s) : FGe(s[i], TARGET_DISPLACEMENT)}
FirstReached == CHOOSE k \in Reached : \A j \in Reached : k <= j

\* C1: solve_canister_car, called with a drag area validate_cda accepts, a
\* positive max_time and a positive accuracy, never ends by raising an
\* exception.
C1_SolveNeverRaises ==
    (Solving /\ validate_cda(cda)[1] /\ Positive(max_time) /\ Positive(accuracy))
        => exc = ""

\* C2: integrate_motion, called directly with a valid drag area and any
\* positive max_time and accuracy, never raises.
C2_EngineNeverRaises ==
    (Engine /\ validate_cda(cda)[1] /\ Positive(max_time) /\ Positive(accuracy))
        => exc = ""

\* C3: when validate_cda rejects the drag area, solve_canister_car does not
\* raise and never calls integrate_motion, and the result it returns has
\* success False, the validator's message, and every series and derived
\* value None.
C3_RejectedResultIsEmpty ==
    (Solving /\ ~validate_cda(cda)[1]) =>
        /\ exc = ""
        /\ "integrate_motion" \notin Range(calls)
        /\ pc = "returned" =>
            /\ ret # None
            /\ ret[1].success = FALSE
            /\ ret[1].message = validate_cda(cda)[2]
            /\ ret[1].message.text # ""
            /\ \A f \in {"t", "v", "s", "time_to_20m", "top_speed", "top_speed_time",
                         "canister_force", "drag_force", "net_force", "acceleration",
                         "mass_values"} : ret[1][f] = None

C3_Witness ==
    /\ Solving
    /\ pc = "returned"
    /\ cda = CdaFloat(Int2F(2))
    /\ ret # None
    /\ calls = <<"solve_canister_car", "validate_cda">>

\* what validate_cda returned for the argument of this run
Rejected == is_valid = FALSE /\ error_msg.text # ""
Accepted == is_valid = TRUE /\ error_msg = Msg("", None)

\* C4: validate_cda returns (False, non-empty message) for None, for input
\* that does not convert to a number, for 0, for negative values, for values
\* below MIN_CDA and for values above MAX_CDA; it returns (True, "") for every
\* value strictly between MIN_CDA and MAX_CDA.
C4_ValidatorVerdicts ==
    (Solving /\ pc # "solve_start") =>
        LET conv == PyFloat(cda)
            x == conv[2]
        IN  /\ cda.kind = "none" => Rejected
            /\ (cda.kind # "none" /\ ~conv[1]) => Rejected
            /\ (cda.kind # "none" /\ conv[1]) =>
                /\ (x = Zero \/ FLt(x, Zero) \/ FLt(x, MIN_CDA) \/ FGt(x, MAX_CDA))
                       => Rejected
                /\ (FLt(MIN_CDA, x) /\ FLt(x, MAX_CDA)) => Accepted

C4_Witness ==
    /\ Solving
    /\ pc = "solve_validated"
    /\ cda = CdaFloat(Rat(1, 2))
    /\ Accepted

\* C5 as stated: validate_cda accepts a value only if MIN_CDA < value <
\* MAX_CDA, so MIN_CDA and MAX_CDA themselves are rejected.
C5_OpenRange ==
    (Solving /\ pc # "solve_start" /\ is_valid) =>
        /\ FLt(MIN_CDA, PyFloat(cda)[2])
        /\ FLt(PyFloat(cda)[2], MAX_CDA)

\* C5 amended: the accepted range is closed. An argument that converts to a
\* number is accepted exactly when MIN_CDA <= value <= MAX_CDA or the value
\* is NaN; the endpoints MIN_CDA and MAX_CDA are accepted.
C5_ClosedRange ==
    (Solving /\ pc # "solve_start" /\ cda.kind # "none" /\ PyFloat(cda)[1]) =>
        LET x == PyFloat(cda)[2]
        IN  /\ is_valid <=> (IsNaN(x) \/ (FLe(MIN_CDA, x) /\ FLe(x, MAX_CDA)))
            /\ (x = MIN_CDA \/ x = MAX_CDA) => Accepted

C5_Witness ==
    /\ Solving
    /\ pc = "solve_validated"
    /\ cda = CdaFloat(MIN_CDA)
    /\ Accepted

\* a displacement ramp from 0 to 25 over t in [0, 1]: 6 samples (the target
\* falls on a sample) and 5 samples (the target falls between two samples)
RampT6 == [k \in 1..6 |-> Rat(k - 1, 5)]
RampS6 == [k \in 1..6 |-> Int2F(5 * (k - 1))]
RampT5 == [k \in 1..5 |-> Rat(k - 1, 4)]
RampS5 == [k \in 1..5 |-> Rat(25 * (k - 1), 4)]

\* C6: when some displacement sample reaches the target, time_to_20m is the
\* linear interpolation between the samples i-1 and i, where i is the FIRST
\* index with s[i] >= TARGET_DISPLACEMENT; it lies in (t[i-1], t[i]]; and on
\* a linear ramp from 0 to 25 over [0, 1] the search reports 0.8 (the ramps
\* do not depend on the run: they are evaluated once, as the run starts).
C6_CrossingInterpolated ==
    /\ (TargetSearched /\ Reached # {}) =>
        LET i == FirstReached
        IN  /\ i > 1
            /\ LET tc == FAdd(t[i - 1],
                              FDiv(FMul(FSub(TARGET_DISPLACEMENT, s[i - 1]),
                                        FSub(t[i], t[i - 1])),
                                   FSub(s[i], s[i - 1])))
               IN  /\ time_to_20m = Some(tc)
                   /\ FLt(t[i - 1], tc)
                   /\ FLe(tc, t[i])
    /\ (Engine /\ pc = "im_start") =>
        /\ CrossingTime(RampT6, RampS6) = Some(Rat(4, 5))
        /\ CrossingTime(RampT5, RampS5) = Some(Rat(4, 5))

C6_Witness ==
    /\ TargetSearched
    /\ pc = "returned"
    /\ Reached # {}
    /\ time_to_20m # None
    /\ FLt(t[FirstReached - 1], time_to_20m[1])
    /\ FLt(time_to_20m[1], t[FirstReached])

\* C7: time_to_20m is None exactly when no displacement sample reaches the
\* target; the result returned then still has success True and the full t,
\* v, s series, and the displacement its message quotes, s[n-1], is the
\* largest displacement of the grid.
C7_NotReached ==
    TargetSearched =>
        /\ time_to_20m = None <=> (\A i \in 1..Len(s) : ~FGe(s[i], TARGET_DISPLACEMENT))
        /\ (pc = "returned" /\ time_to_20m = None) =>
            /\ ret # None
            /\ ret[1].success = TRUE
            /\ ret[1].time_to_20m = None
            /\ ret[1].t = Some(t) /\ ret[1].v = Some(v_actual) /\ ret[1].s = Some(s)
            /\ Len(t) > 0 /\ Len(v_actual) = Len(t) /\ Len(s) = Len(t)
            /\ ret[1].message.text = "Did not reach 20m (max displacement: {:.2f}m)"
            /\ ret[1].message.arg = Some(s[Len(s)])
            /\ \A i \in 1..Len(s) : FLe(s[i], ret[1].message.arg[1])

C7_Witness ==
    /\ TargetSearched
    /\ pc = "returned"
    /\ time_to_20m = None
    /\ Positive(s[Len(s)])
    /\ ret[1].message.arg = Some(s[Len(s)])

\* C8: in every result of integrate_motion top_speed is the largest sample
\* of the clamped velocity series and top_speed_time is t[k] for the earliest
\* index k holding that value.
C8_TopSpeed ==
    (Engine /\ pc = "returned") =>
        /\ ret # None
        /\ ret[1].top_speed # None
        /\ ret[1].top_speed_time # None
        /\ LET v == ret[1].v[1]
               top == ret[1].top_speed[1]
           IN  \E k \in 1..Len(v) :
                   /\ v[k] = top
                   /\ \A j \in 1..Len(v) : FLe(v[j], top)
                   /\ \A j \in 1..(k - 1) : v[j] # top
                   /\ ret[1].top_speed_time = Some(ret[1].t[1][k])

\* a result whose largest velocity is held by two samples, the first of them
\* after the start of the grid
C8_Witness ==
    /\ Engine
    /\ pc = "returned"
    /\ \E k \in 2..Len(v_actual) : \E j \in (k + 1)..Len(v_actual) :
           /\ top_speed = Some(v_actual[k])
           /\ top_speed_time = Some(t[k])
           /\ v_actual[j] = v_actual[k]
           /\ Positive(v_actual[k])

\* C9: the displacement series is non-decreasing, s[i] <= s[i+1] for
\* consecutive grid indices, whatever the thrust and mass values.
C9_DisplacementMonotone ==
    (Engine /\ pc \in {"im_target", "im_top_speed", "returned"}) =>
        /\ \A i \in 1..(Len(s) - 1) : FLe(s[i], s[i + 1])
        /\ pc = "returned" => ret[1].s = Some(s)

\* a result whose net force is negative from the second sample on
C9_Witness ==
    /\ Engine
    /\ pc = "returned"
    /\ Len(t) >= 3
    /\ \A j \in 2..Len(t) : FLt(F_resultant[j], Zero)
    /\ Positive(s[Len(s)])
    /\ v_actual[Len(t)] = Zero

\* the no-drag acceleration of sample i, from the thrust and mass alone
NoDragAccel(i) ==
    IF FGt(m[i], Zero) /\ ~IsNaN(FDiv(F_canister[i], m[i]))
    THEN FDiv(F_canister[i], m[i])
    ELSE Zero

\* C10: at every grid index the drag force is
\* 0.5 * AIR_DENSITY * max(v0[i], 0)^2 * cda for the no-drag velocity v0, the
\* cumulative trapezoid integral of F_c/m alone, and the net force is
\* F_c[i] - F_d[i]; this holds when the net force has just been formed and
\* still holds in the returned result, after the true velocity was computed.
C10_DragFromNoDragVelocity ==
    (Engine /\ pc \in {"im_a_actual", "returned"}) =>
        /\ Len(F_drag) = Len(t) /\ Len(F_resultant) = Len(t)
        /\ v_nodrag[1] = Zero
        /\ \A i \in 2..Len(t) :
               FSub(v_nodrag[i], v_nodrag[i - 1]) =
                   FDiv(FMul(accuracy, FAdd(NoDragAccel(i - 1), NoDragAccel(i))), Int2F(2))
        /\ \A i \in 1..Len(t) :
               LET w == IF FLt(v_nodrag[i], Zero) THEN Zero ELSE v_nodrag[i]
               IN  /\ F_drag[i] =
                          FDiv(FMul(FMul(AIR_DENSITY, FMul(w, w)), cda.val), Int2F(2))
                   /\ F_resultant[i] = FSub(F_canister[i], F_drag[i])

C10_Witness ==
    /\ Engine
    /\ pc = "returned"
    /\ \E i \in 1..Len(t) :
           /\ Positive(F_drag[i])
           /\ v_actual[i] # v_nodrag[i]
           /\ Positive(v_actual[i])
    /\ \E j \in 1..Len(t) : FLt(v_nodrag[j], Zero) /\ F_drag[j] = Zero

\* integrate_motion has built its time grid
GridBuilt == Engine /\ pc # "im_start"

\* t[k] = k*dt for k = 0..n-1: first element 0, strictly increasing, constant
\* spacing dt
UniformGrid ==
    /\ Len(t) >= 1
    /\ t[1] = Zero
    /\ \A k \in 1..Len(t) : t[k] = FMul(Int2F(k - 1), accuracy)
    /\ \A k \in 1..(Len(t) - 1) :
           /\ FLt(t[k], t[k + 1])
           /\ FSub(t[k + 1], t[k]) = accuracy

\* max_time is an integer multiple of dt
WholeSteps == FDiv(max_time, accuracy)[2] = 1

ModelSamples ==
    {<<xs[i], result_array[1][i]>> : i \in (IF result_array = None THEN {} ELSE 1..Len(xs))}
    \cup
    {<<xs[i], result_scalar[1][i]>> : i \in (IF result_scalar = None THEN {} ELSE 1..Len(xs))}

\* C12: canister_force(t) is f1(t) on [0, t1), f2(t) on [t1, t2), f3(t) on
\* [t2, t3] and exactly 0 for t > t3 and for t < 0, with t1 = 0.1306115,
\* t2 = 0.849993, t3 = 1.280275, for the array call and the scalar call alike.
C12_ThrustRegimes ==
    entry = "canister_force" =>
        \A p \in ModelSamples :
            /\ FLt(p[1], Zero) => p[2] = NoThrust
            /\ (FGe(p[1], Zero) /\ FLt(p[1], X_RANGE_1_END)) => p[2] = f1(p[1])
            /\ (FGe(p[1], X_RANGE_1_END) /\ FLt(p[1], X_RANGE_2_END)) => p[2] = f2(p[1])
            /\ (FGe(p[1], X_RANGE_2_END) /\ FLe(p[1], X_RANGE_3_END)) => p[2] = f3(p[1])
            /\ FGt(p[1], X_RANGE_3_END) => p[2] = NoThrust

\* both calls have returned for an array holding the boundary t1, answered by
\* f2, and the burn-out time t3, answered by f3
C12_Witness ==
    /\ entry = "canister_force"
    /\ pc = "returned"
    /\ xs = <<X_RANGE_1_END, X_RANGE_3_END>>
    /\ result_array = Some(<<f2(X_RANGE_1_END), f3(X_RANGE_3_END)>>)
    /\ result_scalar = result_array

\* the samples of the burn, 0 <= t <= t3
ActiveSamples == {p \in ModelSamples : FGe(p[1], Zero) /\ FLe(p[1], MASS_MAX_X)}

NoHistoryDue ==
    entry = "get_time_history" /\ (~solver_result.success \/ solver_result.t = None)

\* get_time_history runs on a successful result that has a time series
HistoryWanted ==
    entry = "get_time_history" /\ solver_result.success /\ solver_result.t # None

\* the call is over
Finished == pc \in {"returned", "raised"}

\* the call returned a view
ViewReturned == pc = "returned" /\ ret # Some(None)

\* the source series of the result with the series of the view made from it,
\* as pairs <<source, view>>
SeriesPairs ==
    LET r == solver_result
        w == ret[1]
    IN  {<<r.t[1], w.t>>, <<r.x[1], w.x>>, <<r.v[1], w.v>>, <<r.s[1], w.s>>}
        \cup
        (IF r.canister_force = None THEN {}
         ELSE {<<r.canister_force[1], w.canister_force>>, <<r.drag_force[1], w.drag_force>>,
               <<r.net_force[1], w.net_force>>, <<r.acceleration[1], w.acceleration>>,
               <<r.mass_values[1], w.mass>>})

\* C14: for every successful result and every num_points >= 1
\* get_time_history returns series whose first sample is the source series'
\* value at t[0] and whose last sample is its value at t[n-1] (t, v, s and
\* every retained force, acceleration and mass series).
C14_EndpointsReproduced ==
    (HistoryWanted /\ Finished) =>
        /\ ViewReturned
        /\ \A p \in SeriesPairs :
               /\ Len(p[2]) = num_points
               /\ p[2][1] = p[1][1]
               /\ p[2][num_points] = p[1][Len(p[1])]

\* C15: get_time_history leaves the source result unchanged (time_to_20m,
\* top_speed, top_speed_time, success, message and every stored series keep
\* their values), and on a failed result or a result without a time series it
\* returns None and changes nothing either.
C15_ResultUntouched ==
    /\ []((NoHistoryDue /\ Finished) => (pc = "returned" /\ ret = Some(None) /\ exc = ""))
    /\ [][solver_result' = solver_result]_vars

\* a view has been returned for a result that stores a crossing time and a
\* top speed
C15_Witness ==
    /\ entry = "get_time_history"
    /\ ViewReturned
    /\ solver_result.time_to_20m # None
    /\ solver_result.top_speed = Some(Int2F(12))

\* C16: get_time_history makes its view purely by interpolating the series
\* stored in the result: for no successful result, one without force and mass
\* series included, does it call the thrust, mass or drag model, and it
\* returns a view for every successful result with a time series.
C16_ReusesStoredSeries ==
    HistoryWanted =>
        /\ \A i \in 1..Len(calls) :
               calls[i] \notin {"compute_forces", "mass", "canister_force", "drag_force"}
        /\ Finished => ViewReturned

(***************************************************************************)
(* Degenerate samples, the clamp and the quadrature                         *)
(***************************************************************************)
\* C17: when the mass callable returns a value <= 0 at some grid point,
\* integrate_motion treats it as an error: it does not return a successful
\* result in which that sample was silently given the acceleration 0.
C17_NonPositiveMassIsError ==
    (Engine /\ pc = "returned" /\ \E i \in 1..Len(m) : FLe(m[i], Zero)) =>
        ~ret[1].success

\* the acceleration the claim gives a sample of force F and mass mm
SanitizedQuotient(F, mm) ==
    IF FGt(mm, Zero)
    THEN LET q == FDiv(F, mm)
         IN  IF IsNaN(q) THEN Zero
             ELSE IF q = PosInf THEN Int2F(1000000)
             ELSE IF q = NegInf THEN Int2F(-1000000)
             ELSE q
    ELSE Zero

\* C18: after the no-drag and the true acceleration steps every acceleration
\* sample is finite whatever the thrust and mass callables return: F[i]/m[i]
\* where m[i] > 0, with 0 for a NaN quotient, 1e6 for +infinity and -1e6 for
\* -infinity, and 0 where the mass is not > 0.  Hence the velocity and
\* displacement series of every returned result hold no NaN or infinity.
C18_AccelerationsFinite ==
    Engine =>
        /\ a_canister # <<>> =>
               \A i \in 1..Len(t) :
                   /\ IsFinite(a_canister[i])
                   /\ a_canister[i] = SanitizedQuotient(F_canister[i], m[i])
        /\ a_actual # <<>> =>
               \A i \in 1..Len(t) :
                   /\ IsFinite(a_actual[i])
                   /\ a_actual[i] = SanitizedQuotient(F_resultant[i], m[i])
        /\ pc = "returned" =>
               /\ ret[1].v = Some(v_actual) /\ ret[1].s = Some(s)
               /\ \A i \in 1..Len(t) : IsFinite(v_actual[i]) /\ IsFinite(s[i])

\* a returned result whose net force was +infinity at one sample, -infinity
\* at another and NaN at a third
C18_Witness ==
    /\ Engine
    /\ pc = "returned"
    /\ \E i, j, k \in 1..Len(t) :
           /\ F_resultant[i] = PosInf /\ a_actual[i] = Int2F(1000000)
           /\ F_resultant[j] = NegInf /\ a_actual[j] = Int2F(-1000000)
           /\ IsNaN(F_resultant[k]) /\ a_actual[k] = Zero

\* c[i] of the trapezoid recurrence c[0] = 0,
\* c[i] = c[i-1] + dt * (y[i-1] + y[i]) / 2, with the 1-based index i
RECURSIVE TrapezoidSum(_, _)
TrapezoidSum(y, i) ==
    IF i = 1 THEN Zero
    ELSE FAdd(TrapezoidSum(y, i - 1),
              FDiv(FMul(accuracy, FAdd(y[i - 1], y[i])), Int2F(2)))

\* integrate_motion has clamped the velocity
Clamped == Engine /\ pc \in {"im_s", "returned"}

\* C19: in every returned result v[i] >= 0 at every grid index and
\* v[i] = max(0, V[i]) for the unclamped trapezoid integral V of the true
\* acceleration: the clamp acts pointwise after the integration and is not fed
\* back, so v is positive again only once V is.
C19_ClampPointwise ==
    Clamped =>
        /\ \A i \in 1..Len(t) :
               LET V == TrapezoidSum(a_actual, i)
               IN  /\ FGe(v_actual[i], Zero)
                   /\ v_actual[i] = IF FGt(V, Zero) THEN V ELSE Zero
        /\ pc = "returned" => ret[1].v = Some(v_actual)

\* a returned result in which V rises while still negative (v stays 0) and
\* is positive at a later sample (v = V there)
C19_Witness ==
    /\ Engine
    /\ pc = "returned"
    /\ \E i \in 1..(Len(t) - 2) :
           /\ FLt(TrapezoidSum(a_actual, i), TrapezoidSum(a_actual, i + 1))
           /\ FLt(TrapezoidSum(a_actual, i + 1), Zero)
           /\ v_actual[i + 1] = Zero
           /\ \E k \in (i + 2)..Len(t) :
                  /\ Positive(TrapezoidSum(a_actual, k))
                  /\ v_actual[k] = TrapezoidSum(a_actual, k)

\* C20: each of the three integrations of integrate_motion (a0 -> v0,
\* a -> unclamped v, clamped v -> s) follows the trapezoid recurrence
\* c[0] = 0, c[i] = c[i-1] + dt * (y[i-1] + y[i]) / 2 on the uniform grid; in
\* particular v[0] = 0 and s[0] = 0 in every result.
C20_TrapezoidRule ==
    Engine =>
        /\ v_nodrag # <<>> =>
               \A i \in 1..Len(t) : v_nodrag[i] = TrapezoidSum(a_canister, i)
        /\ pc = "im_clamp" =>
               \A i \in 1..Len(t) : v_actual[i] = TrapezoidSum(a_actual, i)
        /\ s # <<>> =>
               \A i \in 1..Len(t) : s[i] = TrapezoidSum(v_actual, i)
        /\ pc = "returned" =>
               /\ ret[1].v[1][1] = Zero
               /\ ret[1].s[1][1] = Zero
               /\ ret[1].s = Some(s)

\* a returned result with a positive final displacement whose true velocity
\* differs from the no-drag velocity
C20_Witness ==
    /\ Engine
    /\ pc = "returned"
    /\ Len(t) >= 3
    /\ Positive(s[Len(t)])
    /\ \E i \in 1..Len(t) : Positive(v_actual[i]) /\ v_actual[i] # v_nodrag[i]
    /\ \E i \in 2..Len(t) : a_actual[i] # a_actual[i - 1]

(***************************************************************************)
(* Empty grid                                                               *)
(***************************************************************************)
\* integrate_motion runs with max_time + accuracy <= 0
EmptyGridDue == Engine /\ FLe(FAdd(max_time, accuracy), Zero)

\* C21: when the time grid, and so the velocity series, is empty (a
\* configuration with max_time + accuracy <= 0), integrate_motion returns a
\* result whose top_speed and top_speed_time are absent.
C21_EmptyGridNoTopSpeed ==
    (EmptyGridDue /\ pc # "im_start") =>
        /\ t = <<>>
        /\ Finished =>
               /\ pc = "returned"
               /\ ret[1].top_speed = None
               /\ ret[1].top_speed_time = None

(***************************************************************************)
(* Scalar and array paths of the models                                     *)
(***************************************************************************)
\* 2K(t - t3) with K = 0.008 * (40000 / 51211)^2 and t3 = MASS_MAX_X
MassSlope(tt) ==
    LET r == Rat(40000, 51211)
    IN  FMul(Rat(16, 1000), FMul(r, FMul(r, FSub(tt, MASS_MAX_X))))

\* C25: for every finite time t (negative, inside each regime, exactly 0, t1,
\* t2, t3, and after the burn) the scalar path and the array path of each
\* model return the same value, for canister_force, mass and mass_derivative;
\* mass_derivative is 2K(t - t3) for 0 <= t <= t3 and 0 outside.
C25_ScalarMatchesArray ==
    (entry \in {"canister_force", "mass", "mass_derivative"} /\ pc = "returned") =>
        \A i \in 1..Len(xs) :
            IsFinite(xs[i]) =>
                /\ result_scalar[1][i] = result_array[1][i]
                /\ entry = "mass_derivative" =>
                       result_array[1][i] =
                           IF FGe(xs[i], Zero) /\ FLe(xs[i], MASS_MAX_X)
                           THEN MassSlope(xs[i])
                           ELSE Zero

\* mass_derivative has returned for the array <<0, t3>> on both paths: the
\* steepest loss at the start, 0 at burn-out
C25_Witness ==
    /\ entry = "mass_derivative"
    /\ pc = "returned"
    /\ xs = <<Zero, MASS_MAX_X>>
    /\ result_array = Some(<<MassSlope(Zero), Zero>>)
    /\ result_scalar = result_array
    /\ FLt(MassSlope(Zero), Zero)

(***************************************************************************)
(* Guard branches of the crossing search                                    *)
(***************************************************************************)
\* the branch of the crossing search that sets time_to_20m, for the index
\* i = idx_20m[0] the search uses (1-based here)
BranchTaken ==
    IF TargetIndices(s) = {} THEN "none"
    ELSE LET i == SetMin(TargetIndices(s))
         IN  IF i = 1 THEN "first sample"
             ELSE IF FGt(s[i], s[i - 1]) THEN "interpolated"
             ELSE "flat"

\* C24: in integrate_motion with finite series, a target index i, when one
\* exists, satisfies i >= 1 and s[i-1] < TARGET_DISPLACEMENT <= s[i]; so the
\* guard branches of the crossing search (t[0] for i = 0, t[i-1] for
\* s[i] <= s[i-1]) are never taken and the interpolation never divides by 0.
C24_GuardsNeverTaken ==
    TargetSearched =>
        /\ \A k \in 1..Len(s) : IsFinite(s[k])
        /\ BranchTaken \in {"none", "interpolated"}
        /\ TargetIndices(s) # {} =>
               LET i == SetMin(TargetIndices(s))
               IN  /\ i >= 2
                   /\ FLt(s[i - 1], TARGET_DISPLACEMENT)
                   /\ FLe(TARGET_DISPLACEMENT, s[i])
                   /\ FSub(s[i], s[i - 1]) # Zero
                   /\ time_to_20m # None
                   /\ FGt(time_to_20m[1], t[i - 1]) /\ FLe(time_to_20m[1], t[i])

\* a returned result whose displacement is flat over the first step (the car
\* stands still) and crosses the target in the last step of four samples
C24_Witness ==
    /\ Engine
    /\ pc = "returned"
    /\ Len(t) = 4
    /\ s[2] = s[1]
    /\ Reached # {}
    /\ FirstReached = 4
    /\ FGt(s[4], TARGET_DISPLACEMENT)

(***************************************************************************)
(* The window and its worker thread.                                        *)
(***************************************************************************)
\* the calculations started whose callback has not run yet: the worker is
\* running, or its callback waits in the after queue
InFlight == Cardinality(threads) + Len(after_queue)

\* C22: at most one calculation is in flight at any time; while one is, the
\* calculating flag is True, and a press of Calculate (the button or the
\* Return key) then starts no thread and leaves calculating, current_result
\* and the displayed results as they were.
C22_OneWorkerInFlight ==
    /\ [](InFlight <= 1 /\ (InFlight = 1 => calculating))
    /\ [][calculating => (started' = started /\ threads' \subseteq threads)]_vars
    /\ [][(calculating /\ OnCalculate) =>
             UNCHANGED <<threads, after_queue, started, calculating, current_result,
                         time_20m_var, top_speed_var>>]_vars

\* Calculate was pressed while the first worker was running and was refused
C22_Witness ==
    /\ entry = "gui"
    /\ calculating
    /\ dialog = "Calculation in Progress"
    /\ started = 1
    /\ Cardinality(threads) = 1
    /\ after_queue = <<>>

\* the callbacks run for the calculation started as number n
CallbacksRun(n) == {i \in 1..Len(handled) : handled[i].id = n}

\* C23: with the worker scheduled and the event loop running, every
\* calculation started leads to exactly one run of _on_calculation_complete
\* or _on_calculation_error on the main thread, the error callback whenever
\* solve_canister_car raised; the callback leaves calculating False and the
\* Calculate button enabled, and calculating never stays True forever.
C23_EveryCalculationEnds ==
    /\ []<>(~calculating /\ \A n \in 1..started : CallbacksRun(n) # {})
    /\ [](\A n \in 1..MaxCalculations : Cardinality(CallbacksRun(n)) <= 1)
    /\ [](\A i \in 1..Len(handled) :
             /\ handled[i].callback \in {"_on_calculation_complete", "_on_calculation_error"}
             /\ handled[i].raised => handled[i].callback = "_on_calculation_error")
    /\ [][Len(handled') > Len(handled) =>
             (~calculating' /\ calculate_button' = "normal")]_vars

\* the second calculation raised in solve_canister_car and its error callback
\* has run
C23_Witness ==
    /\ entry = "gui"
    /\ started = 2
    /\ Len(handled) = 2
    /\ handled[2] = [id |-> 2, callback |-> "_on_calculation_error", raised |-> TRUE]
    /\ ~calculating
    /\ calculate_button = "normal"
    /\ InFlight = 0

\* C26: a press of Clear while a calculation is in flight leaves the worker,
\* the posted callback and the calculating flag alone and sets current_result
\* to None and the result fields to '---'; the callback of that calculation,
\* when it runs afterwards, stores the worker's result in current_result, so
\* the cleared state ends there.
C26_ClearedUntilCallback ==
    /\ [][(calculating /\ OnClear) =>
             /\ calculating'
             /\ threads' = threads
             /\ after_queue' = after_queue
             /\ current_result' = None
             /\ time_20m_var' = Blank
             /\ top_speed_var' = Blank]_vars
    /\ [][(cleared /\ Len(handled') > Len(handled)) =>
             /\ handled'[Len(handled')].callback = "_on_calculation_complete"
             /\ current_result' # None]_vars

====
